---- MODULE Spec2Model ----
(***************************************************************************)
(* Payment form server: the sanitize -> validate -> persist -> simulate -> *)
(* finalize pipeline of POST /api/payment, the admin PATCH and DELETE      *)
(* endpoints, and the storage backends (MemStorage, DatabaseStorage) they  *)
(* call.  Strings are sequences of one-character strings.                  *)
(***************************************************************************)
EXTENDS Integers, Sequences, FiniteSets, TLC

(* ------------------------------ bounds --------------------------------- *)
MaxRuns == 2        \* POST /api/payment handlers in flight at once
MaxDeletes == 2     \* DELETE /api/payment/:id handlers in flight at once
MaxPayments == 2    \* payments created
MaxTime == 1        \* milliseconds the clock may advance
NSuffix == 2        \* distinct random transaction-id suffixes

(* ------------------------------ characters ----------------------------- *)
Digits == {"0", "1", "2", "3", "4", "5", "6", "7", "8", "9"}

Whitespace == {" ", "\t"}

DigitVal(c) ==
  CASE c = "0" -> 0 [] c = "1" -> 1 [] c = "2" -> 2 [] c = "3" -> 3
    [] c = "4" -> 4 [] c = "5" -> 5 [] c = "6" -> 6 [] c = "7" -> 7
    [] c = "8" -> 8 [] c = "9" -> 9

UpperCase == <<"A", "B", "C", "D", "E", "F", "G", "H", "I", "J", "K", "L", "M",
               "N", "O", "P", "Q", "R", "S", "T", "U", "V", "W", "X", "Y", "Z">>

LowerCase == <<"a", "b", "c", "d", "e", "f", "g", "h", "i", "j", "k", "l", "m",
               "n", "o", "p", "q", "r", "s", "t", "u", "v", "w", "x", "y", "z">>

\* String.prototype.toLowerCase, one character
ToLowerChar(c) ==
  IF \E i \in 1..26 : UpperCase[i] = c
    THEN LowerCase[CHOOSE i \in 1..26 : UpperCase[i] = c]
    ELSE c

\* String.prototype.toLowerCase
ToLowerCase(s) == [i \in 1..Len(s) |-> ToLowerChar(s[i])]

\* String.prototype.trim
Trim(s) ==
  LET keep == {i \in 1..Len(s) : s[i] \notin Whitespace}
  IN IF keep = {} THEN <<>>
     ELSE SubSeq(s, CHOOSE i \in keep : \A j \in keep : i <= j,
                    CHOOSE i \in keep : \A j \in keep : i >= j)

\* String.prototype.substring(0, n)
Substring(s, n) == IF Len(s) <= n THEN s ELSE SubSeq(s, 1, n)

\* /^\d+$/ on a possibly empty string: every character is a digit
AllDigits(s) == \A i \in 1..Len(s) : s[i] \in Digits

\* value of a string of decimal digits
RECURSIVE DecimalValue(_)
DecimalValue(s) ==
  IF s = <<>> THEN 0
  ELSE 10 * DecimalValue(SubSeq(s, 1, Len(s) - 1)) + DigitVal(s[Len(s)])

NaN == -1000000

\* parseInt(s): leading whitespace, an optional sign, the longest run of digits
ParseInt(s) ==
  LET t == IF \E i \in 1..Len(s) : s[i] \notin Whitespace
             THEN SubSeq(s, CHOOSE i \in 1..Len(s) :
                               /\ s[i] \notin Whitespace
                               /\ \A j \in 1..(i - 1) : s[j] \in Whitespace,
                         Len(s))
             ELSE <<>>
      signed == t # <<>> /\ t[1] \in {"+", "-"}
      u == IF signed THEN Tail(t) ELSE t
      n == IF \E k \in 1..Len(u) : u[k] \notin Digits
             THEN (CHOOSE k \in 1..Len(u) :
                     /\ u[k] \notin Digits
                     /\ \A j \in 1..(k - 1) : u[j] \in Digits) - 1
             ELSE Len(u)
      v == DecimalValue(SubSeq(u, 1, n))
  IN IF n = 0 THEN NaN
     ELSE IF signed /\ t[1] = "-" THEN 0 - v ELSE v

IsNaN(n) == n = NaN

(* ------------------------------ sanitizers ----------------------------- *)
InjectionChars == {"<", ">", "\"", "'"}

NotInjectionChar(c) == c \notin InjectionChars

sanitizeInput(input) == Substring(SelectSeq(Trim(input), NotInjectionChar), 255)

sanitizeEmail(email) == Substring(Trim(ToLowerCase(email)), 254)

NumericChar(c) == c \in Digits \cup {".", "-"}

sanitizeNumeric(input) == Substring(SelectSeq(input, NumericChar), 20)

(* ------------------------------ validators ----------------------------- *)
\* s.replace(/\s/g, '')
RemoveWhitespace(s) == LET NotSpace(c) == c \notin Whitespace IN SelectSeq(s, NotSpace)

validateCardNumber(value) ==
  LET cleaned == RemoveWhitespace(value)
  IN Len(cleaned) = 16 /\ AllDigits(cleaned)

validateCVC(value) == Len(value) \in {3, 4} /\ AllDigits(value)

\* a check that also rejects the current month
ExpiryAfterThisMonth(value, date) ==
  IF ~(/\ Len(value) = 5
       /\ value[3] = "/"
       /\ \A i \in {1, 2, 4, 5} : value[i] \in Digits)
    THEN FALSE
    ELSE LET currentYear == date.year % 100
             currentMonth == date.month
             expMonth == ParseInt(SubSeq(value, 1, 2))
             expYear == ParseInt(SubSeq(value, 4, 5))
         IN IF expMonth < 1 \/ expMonth > 12 THEN FALSE
            ELSE IF \/ expYear < currentYear
                    \/ (expYear = currentYear /\ expMonth <= currentMonth)
                   THEN FALSE
                   ELSE TRUE

\* date is the pair (getFullYear(), getMonth() + 1) of new Date()
validateExpiryDate(value, date) ==
  IF ~(/\ Len(value) = 5
       /\ value[3] = "/"
       /\ \A i \in {1, 2, 4, 5} : value[i] \in Digits)
    THEN FALSE
    ELSE LET currentYear == date.year % 100
             currentMonth == date.month
             expMonth == ParseInt(SubSeq(value, 1, 2))
             expYear == ParseInt(SubSeq(value, 4, 5))
         IN IF expMonth < 1 \/ expMonth > 12 THEN FALSE
            ELSE IF \/ expYear < currentYear
                    \/ (expYear = currentYear /\ expMonth < currentMonth)
                   THEN FALSE
                   ELSE TRUE

\* length of the longest prefix of digits
DigitPrefixLen(u) ==
  IF \E k \in 1..Len(u) : u[k] \notin Digits
    THEN (CHOOSE k \in 1..Len(u) :
            /\ u[k] \notin Digits
            /\ \A j \in 1..(k - 1) : u[j] \in Digits) - 1
    ELSE Len(u)

\* !isNaN(parseFloat(value)) && parseFloat(value) > 0, for values without an
\* exponent part: sign, integer digits, an optional fraction; the rest is ignored
validateAmount(value) ==
  LET t == IF \E i \in 1..Len(value) : value[i] \notin Whitespace
             THEN SubSeq(value, CHOOSE i \in 1..Len(value) :
                                   /\ value[i] \notin Whitespace
                                   /\ \A j \in 1..(i - 1) : value[j] \in Whitespace,
                         Len(value))
             ELSE <<>>
      signed == t # <<>> /\ t[1] \in {"+", "-"}
      u == IF signed THEN Tail(t) ELSE t
      ni == DigitPrefixLen(u)
      rest == SubSeq(u, ni + 1, Len(u))
      frac == IF rest # <<>> /\ rest[1] = "."
                THEN SubSeq(rest, 2, 1 + DigitPrefixLen(Tail(rest)))
                ELSE <<>>
      digits == SubSeq(u, 1, ni) \o frac
  IN /\ digits # <<>>
     /\ ~(signed /\ t[1] = "-")
     /\ \E i \in 1..Len(digits) : digits[i] # "0"

\* /^[^\s@]+@[^\s@]+\.[^\s@]+$/
validateEmail(value) ==
  /\ \A i \in 1..Len(value) : value[i] \notin Whitespace
  /\ Cardinality({i \in 1..Len(value) : value[i] = "@"}) = 1
  /\ LET at == CHOOSE i \in 1..Len(value) : value[i] = "@"
     IN /\ at > 1
        /\ \E d \in (at + 2)..(Len(value) - 1) : value[d] = "."

\* /^\d{5}(-\d{4})?$/
validatePostalCode(value) ==
  \/ Len(value) = 5 /\ AllDigits(value)
  \/ /\ Len(value) = 10
     /\ value[6] = "-"
     /\ AllDigits(SubSeq(value, 1, 5))
     /\ AllDigits(SubSeq(value, 7, 10))

validateRequired(value) == Trim(value) # <<>>

\* the ten validated fields, in the order of the validations array
FieldOrder == <<"cardNumber", "cvc", "expiryDate", "amount", "firstName",
                "lastName", "email", "city", "state", "postalCode">>

\* the validator of each entry of the validations array
FieldValid(field, value, date) ==
  CASE field = "cardNumber" -> validateCardNumber(value)
    [] field = "cvc" -> validateCVC(value)
    [] field = "expiryDate" -> validateExpiryDate(value, date)
    [] field = "amount" -> validateAmount(value)
    [] field = "email" -> validateEmail(value)
    [] field = "postalCode" -> validatePostalCode(value)
    [] OTHER -> validateRequired(value)

\* the message of each entry of the validations array
FieldMessage(field) ==
  CASE field = "cardNumber" -> "Card number must be 16 digits"
    [] field = "cvc" -> "CVC must be 3-4 digits"
    [] field = "expiryDate" -> "Expiry date must be valid and in the future (MM/YY)"
    [] field = "amount" -> "Amount must be a valid positive number"
    [] field = "firstName" -> "First name is required"
    [] field = "lastName" -> "Last name is required"
    [] field = "email" -> "Please enter a valid email address"
    [] field = "city" -> "City is required"
    [] field = "state" -> "State is required"
    [] field = "postalCode" -> "Postal code must be in format 12345 or 12345-6789"

\* `${field.charAt(0).toUpperCase() + field.slice(1)} is required`
RequiredMessage(field) ==
  CASE field = "cardNumber" -> "CardNumber is required"
    [] field = "cvc" -> "Cvc is required"
    [] field = "expiryDate" -> "ExpiryDate is required"
    [] field = "amount" -> "Amount is required"
    [] field = "firstName" -> "FirstName is required"
    [] field = "lastName" -> "LastName is required"
    [] field = "email" -> "Email is required"
    [] field = "city" -> "City is required"
    [] field = "state" -> "State is required"
    [] field = "postalCode" -> "PostalCode is required"

\* the errors pushed by one iteration of validations.forEach
FieldErrors(field, value, date) ==
  IF ~validateRequired(value)
    THEN <<[field |-> field, message |-> RequiredMessage(field)]>>
    ELSE IF value # <<>> /\ ~FieldValid(field, value, date)
           THEN <<[field |-> field, message |-> FieldMessage(field)]>>
           ELSE <<>>

\* a validation that stops at the first field that fails
RECURSIVE FailFastFrom(_, _, _)
FailFastFrom(k, formData, date) ==
  IF k > Len(FieldOrder) THEN <<>>
  ELSE IF FieldErrors(FieldOrder[k], formData[FieldOrder[k]], date) # <<>>
         THEN FieldErrors(FieldOrder[k], formData[FieldOrder[k]], date)
         ELSE FailFastFrom(k + 1, formData, date)

RECURSIVE ValidateFrom(_, _, _)
ValidateFrom(k, formData, date) ==
  IF k > Len(FieldOrder) THEN <<>>
  ELSE FieldErrors(FieldOrder[k], formData[FieldOrder[k]], date)
         \o ValidateFrom(k + 1, formData, date)

validatePaymentForm(formData, date) == ValidateFrom(1, formData, date)

(* ------------------------------ values --------------------------------- *)
PENDING == <<"p", "e", "n", "d", "i", "n", "g">>

COMPLETED == <<"c", "o", "m", "p", "l", "e", "t", "e", "d">>

FAILED == <<"f", "a", "i", "l", "e", "d">>

REFUNDED == <<"r", "e", "f", "u", "n", "d", "e", "d">>

ARCHIVED == <<"a", "r", "c", "h", "i", "v", "e", "d">>

validStatusesWithArchived == {PENDING, COMPLETED, FAILED, REFUNDED, ARCHIVED}

validStatuses == {PENDING, COMPLETED, FAILED, REFUNDED}

\* null and undefined: one-element tuples no string of characters equals
Null == <<"null">>

Undefined == <<"undefined">>

\* '*'.repeat(n)
Stars(n) == [i \in 1..n |-> "*"]

(* ------------------------------ storage -------------------------------- *)
\* the mask applied after the last four characters were taken off twice
MaskAllButLastEight(cardNumber) ==
  LET cleaned == RemoveWhitespace(cardNumber)
  IN IF Len(cleaned) < 8 THEN cleaned
     ELSE Stars(Len(cleaned) - 8) \o SubSeq(cleaned, Len(cleaned) - 7, Len(cleaned))

\* MemStorage.maskCardNumber
MemStorage_maskCardNumber(cardNumber) ==
  LET cleaned == RemoveWhitespace(cardNumber)
  IN IF Len(cleaned) < 4 THEN Stars(Len(cleaned))
     ELSE Stars(Len(cleaned) - 4) \o SubSeq(cleaned, Len(cleaned) - 3, Len(cleaned))

\* DatabaseStorage.maskCardNumber
DatabaseStorage_maskCardNumber(cardNumber) ==
  LET cleaned == RemoveWhitespace(cardNumber)
  IN IF Len(cleaned) < 4 THEN Stars(Len(cleaned))
     ELSE Stars(Len(cleaned) - 4) \o SubSeq(cleaned, Len(cleaned) - 3, Len(cleaned))

\* the Payment built by MemStorage.createPayment
MemStorage_createPayment(insertPayment, id, date) ==
  [id |-> id,
   transactionId |-> insertPayment.transactionId,
   cardNumber |-> MemStorage_maskCardNumber(insertPayment.cardNumber),
   cvc |-> insertPayment.cvc,
   expiryDate |-> insertPayment.expiryDate,
   amount |-> insertPayment.amount,
   firstName |-> insertPayment.firstName,
   lastName |-> insertPayment.lastName,
   email |-> insertPayment.email,
   city |-> insertPayment.city,
   state |-> insertPayment.state,
   postalCode |-> insertPayment.postalCode,
   message |-> IF insertPayment.message = <<>> THEN Null ELSE insertPayment.message,
   status |-> IF insertPayment.status = <<>> THEN PENDING ELSE insertPayment.status,
   createdAt |-> date,
   updatedAt |-> date]

\* an insert that keeps an empty message as the empty string
CreateKeepingEmptyMessage(insertPayment, id, date) ==
  [id |-> id,
   transactionId |-> insertPayment.transactionId,
   cardNumber |-> DatabaseStorage_maskCardNumber(insertPayment.cardNumber),
   cvc |-> insertPayment.cvc,
   expiryDate |-> insertPayment.expiryDate,
   amount |-> insertPayment.amount,
   firstName |-> insertPayment.firstName,
   lastName |-> insertPayment.lastName,
   email |-> insertPayment.email,
   city |-> insertPayment.city,
   state |-> insertPayment.state,
   postalCode |-> insertPayment.postalCode,
   message |-> insertPayment.message,
   status |-> IF insertPayment.status = <<>> THEN PENDING ELSE insertPayment.status,
   createdAt |-> date,
   updatedAt |-> date]

\* the row inserted by DatabaseStorage.createPayment; id, createdAt and
\* updatedAt are the defaults the payments table fills in
DatabaseStorage_createPayment(insertPayment, id, date) ==
  [id |-> id,
   transactionId |-> insertPayment.transactionId,
   cardNumber |-> DatabaseStorage_maskCardNumber(insertPayment.cardNumber),
   cvc |-> insertPayment.cvc,
   expiryDate |-> insertPayment.expiryDate,
   amount |-> insertPayment.amount,
   firstName |-> insertPayment.firstName,
   lastName |-> insertPayment.lastName,
   email |-> insertPayment.email,
   city |-> insertPayment.city,
   state |-> insertPayment.state,
   postalCode |-> insertPayment.postalCode,
   message |-> IF insertPayment.message = <<>> THEN Null ELSE insertPayment.message,
   status |-> IF insertPayment.status = <<>> THEN PENDING ELSE insertPayment.status,
   createdAt |-> date,
   updatedAt |-> date]

\* the payments table declares transactionId UNIQUE: the insert is rejected
UniqueViolation(store, transactionId) ==
  \E i \in DOMAIN store : store[i].transactionId = transactionId

\* MemStorage.getPayment / DatabaseStorage.getPayment: the payment found, if any
getPayment(store, id) == {store[i] : i \in DOMAIN store \cap {id}}

\* MemStorage.getPaymentByTransactionId: the matching payments (find takes one)
getPaymentByTransactionId(store, transactionId) ==
  {store[i] : i \in {j \in DOMAIN store : store[j].transactionId = transactionId}}

\* MemStorage.getPaymentsByStatus / DatabaseStorage.getPaymentsByStatus
getPaymentsByStatus(store, status) ==
  {store[i] : i \in {j \in DOMAIN store : store[j].status = status}}

\* MemStorage.getPaymentsByEmail
MemStorage_getPaymentsByEmail(store, email) ==
  {store[i] : i \in {j \in DOMAIN store :
                        ToLowerCase(store[j].email) = ToLowerCase(email)}}

\* DatabaseStorage.getPaymentsByEmail
DatabaseStorage_getPaymentsByEmail(store, email) ==
  {store[i] : i \in {j \in DOMAIN store : store[j].email = email}}

\* an update that leaves updatedAt as it was
UpdateWithoutTimestamp(store, id, paymentData, date) ==
  IF id \notin DOMAIN store THEN store
  ELSE [store EXCEPT ![id] = [@ EXCEPT !.status = paymentData.status]]

\* the map after MemStorage.updatePayment(id, paymentData) at time date
MemStorage_updatePayment(store, id, paymentData, date) ==
  IF id \notin DOMAIN store THEN store
  ELSE [store EXCEPT ![id] = [@ EXCEPT !.status = paymentData.status,
                                       !.updatedAt = date]]

\* an update that also issues a new transaction id
UpdateWithNewTransactionId(store, id, paymentData, date) ==
  IF id \notin DOMAIN store THEN store
  ELSE [store EXCEPT ![id] = [@ EXCEPT !.status = paymentData.status,
                                       !.updatedAt = date,
                                       !.transactionId = [ts |-> date, rand |-> 0]]]

\* the table after DatabaseStorage.updatePayment(id, paymentData) at time date
DatabaseStorage_updatePayment(store, id, paymentData, date) ==
  IF id \notin DOMAIN store THEN store
  ELSE [store EXCEPT ![id] = [@ EXCEPT !.status = paymentData.status,
                                       !.updatedAt = date]]

\* a delete that removes nothing
DeleteNothing(store, id) == store

\* the map after MemStorage.deletePayment(id)
MemStorage_deletePayment(store, id) == [i \in DOMAIN store \ {id} |-> store[i]]

\* the table after DatabaseStorage.deletePayment(id)
DatabaseStorage_deletePayment(store, id) == [i \in DOMAIN store \ {id} |-> store[i]]

\* the User built by MemStorage.createUser: { ...insertUser, id }
MemStorage_createUser(insertUser, id) == [id |-> id] @@ insertUser

\* the row inserted by DatabaseStorage.createUser; id is the serial column
DatabaseStorage_createUser(insertUser, id) == [id |-> id] @@ insertUser

\* MemStorage.getUser / DatabaseStorage.getUser: the user found, if any
getUser(store, id) == {store[i] : i \in DOMAIN store \cap {id}}

\* MemStorage.getUserByUsername / DatabaseStorage.getUserByUsername: the
\* matching users (find and the array destructuring take one)
getUserByUsername(store, username) ==
  {store[i] : i \in {j \in DOMAIN store : store[j].username = username}}

\* an update that creates the user it does not find
UpsertUser(store, id, userData) == (id :> (userData @@ [id |-> id])) @@ store

\* the map after MemStorage.updateUser(id, userData): { ...existingUser, ...userData }
MemStorage_updateUser(store, id, userData) ==
  IF id \notin DOMAIN store THEN store
  ELSE [store EXCEPT ![id] = userData @@ @]

\* the table after DatabaseStorage.updateUser(id, userData)
DatabaseStorage_updateUser(store, id, userData) ==
  IF id \notin DOMAIN store THEN store
  ELSE [store EXCEPT ![id] = userData @@ @]

\* the map after MemStorage.deleteUser(id)
MemStorage_deleteUser(store, id) == [i \in DOMAIN store \ {id} |-> store[i]]

\* the table after DatabaseStorage.deleteUser(id)
DatabaseStorage_deleteUser(store, id) == [i \in DOMAIN store \ {id} |-> store[i]]

(* ------------------------------ requests ------------------------------- *)
BasePayload ==
  [cardNumber |-> <<"4", "1", "1", "1", " ", "1", "1", "1", "1", " ", "1", "1", "1", "1", " ", "1", "1", "1", "1">>,
   cvc |-> <<"1", "2", "3">>,
   expiryDate |-> <<"1", "2", "/", "2", "6">>,
   amount |-> <<"1", "0", ".", "5", "0">>,
   firstName |-> <<" ", "A", "n", "n">>,
   lastName |-> <<"<", "L", "e", "e", ">">>,
   email |-> <<"A", "n", "n", "@", "E", "x", ".", "i", "o">>,
   city |-> <<"R", "o", "m", "e">>,
   state |-> <<"R", "M">>,
   postalCode |-> <<"1", "2", "3", "4", "5">>,
   message |-> Undefined]

\* request bodies of POST /api/payment
Payloads ==
  {BasePayload,
   [BasePayload EXCEPT !.email = <<>>],
   [BasePayload EXCEPT !.cardNumber = <<"4", "1", "1", "1", "1", "1", "1", "1", "1", "1", "1", "1", "1", "1", "1">>, !.cvc = <<"1", "2">>],
   [BasePayload EXCEPT !.city = Undefined],
   [BasePayload EXCEPT !.email = Undefined]}

\* :id path parameters of the PATCH and DELETE requests
IdParams == {<<"1">>, <<"2">>, <<"x">>, <<"2", "x">>}

\* status values of PATCH request bodies
StatusInputs ==
  {PENDING, COMPLETED, FAILED, REFUNDED, ARCHIVED,
   <<" ", "'", "f", "a", "i", "l", "e", "d", "'">>, Undefined}

DECLINED == [field |-> "cardNumber", message |-> "Card was declined"]

(* ------------------------------ state ---------------------------------- *)
VARIABLES
  backend,            \* the class of the exported storage object
  users,              \* MemStorage.users / the users table: id -> User
  currentUserId,      \* MemStorage.currentUserId / the id sequence of the table
  payments,           \* MemStorage.payments / the payments table: id -> Payment
  currentPaymentId,   \* MemStorage.currentPaymentId / the id sequence of the table
  now,                \* Date.now(), milliseconds since the server started
  today,              \* year and month of new Date()
  run,                \* the POST /api/payment handlers in flight
  del,                \* the DELETE /api/payment/:id handlers in flight
  response            \* the response sent (or the result returned) last, with
                      \* the endpoint (or storage method) it came from

vars == <<backend, users, currentUserId, payments, currentPaymentId, now, today,
          run, del, response>>

Backends == {"MemStorage", "DatabaseStorage"}

StartDate == [year |-> 2026, month |-> 12]

\* the months new Date() falls in while the model runs
Dates == {StartDate}

\* an update that goes to the lowest stored id, whatever id it was given
UpdateLowestId(id, paymentData, date) ==
  IF id \notin DOMAIN payments THEN payments
  ELSE LET lowest == CHOOSE i \in DOMAIN payments : \A j \in DOMAIN payments : i <= j
       IN [payments EXCEPT ![lowest] = [@ EXCEPT !.status = paymentData.status,
                                                  !.updatedAt = date]]

\* the storage object the handlers call
createPayment(insertPayment, id, date) ==
  IF backend = "MemStorage" THEN MemStorage_createPayment(insertPayment, id, date)
  ELSE DatabaseStorage_createPayment(insertPayment, id, date)

updatePayment(id, paymentData, date) ==
  IF backend = "MemStorage" THEN MemStorage_updatePayment(payments, id, paymentData, date)
  ELSE DatabaseStorage_updatePayment(payments, id, paymentData, date)

deletePayment(id) ==
  IF backend = "MemStorage" THEN MemStorage_deletePayment(payments, id)
  ELSE DatabaseStorage_deletePayment(payments, id)

Idle == [pc |-> "idle"]

Init ==
  /\ backend \in Backends
  /\ users = <<>>
  /\ currentUserId = 1
  /\ payments = <<>>
  /\ currentPaymentId = 1
  /\ now = 0
  /\ today \in Dates
  /\ run = [r \in 1..MaxRuns |-> Idle]
  /\ del = [d \in 1..MaxDeletes |-> Idle]
  /\ response = [op |-> "none", code |-> 0]

(* ------------------------------ POST /api/payment ---------------------- *)
\* a field the sanitizers are called on is missing from the body: TypeError
HasUndefined(formData) ==
  \E k \in 1..Len(FieldOrder) : formData[FieldOrder[k]] = Undefined

sanitizedDataOf(formData) ==
  [cardNumber |-> sanitizeNumeric(formData.cardNumber),
   cvc |-> sanitizeNumeric(formData.cvc),
   expiryDate |-> sanitizeInput(formData.expiryDate),
   amount |-> sanitizeNumeric(formData.amount),
   firstName |-> sanitizeInput(formData.firstName),
   lastName |-> sanitizeInput(formData.lastName),
   email |-> sanitizeEmail(formData.email),
   city |-> sanitizeInput(formData.city),
   state |-> sanitizeInput(formData.state),
   postalCode |-> sanitizeNumeric(formData.postalCode),
   message |-> sanitizeInput(IF formData.message = Undefined
                               THEN <<>> ELSE formData.message)]

\* the insert with the initial status misspelt
InsertCapitalizedStatus(sanitizedData, transactionId) ==
  [cardNumber |-> sanitizedData.cardNumber,
   cvc |-> sanitizedData.cvc,
   expiryDate |-> sanitizedData.expiryDate,
   amount |-> sanitizedData.amount,
   firstName |-> sanitizedData.firstName,
   lastName |-> sanitizedData.lastName,
   email |-> sanitizedData.email,
   city |-> sanitizedData.city,
   state |-> sanitizedData.state,
   postalCode |-> sanitizedData.postalCode,
   message |-> sanitizedData.message,
   transactionId |-> transactionId,
   status |-> <<"P", "e", "n", "d", "i", "n", "g">>]

\* { ...sanitizedData, transactionId, status: 'pending' }
InsertPaymentOf(sanitizedData, transactionId) ==
  [cardNumber |-> sanitizedData.cardNumber,
   cvc |-> sanitizedData.cvc,
   expiryDate |-> sanitizedData.expiryDate,
   amount |-> sanitizedData.amount,
   firstName |-> sanitizedData.firstName,
   lastName |-> sanitizedData.lastName,
   email |-> sanitizedData.email,
   city |-> sanitizedData.city,
   state |-> sanitizedData.state,
   postalCode |-> sanitizedData.postalCode,
   message |-> sanitizedData.message,
   transactionId |-> transactionId,
   status |-> PENDING]

\* the request bodies the sanitizers accept (no field is missing)
Sanitizable == {formData \in Payloads : ~HasUndefined(formData)}

\* sanitizedData and validationErrors of each request body, computed once
sanitizedDataTable == [formData \in Sanitizable |-> sanitizedDataOf(formData)]

validationErrorsTable ==
  [formData \in Sanitizable, date \in Dates |->
     validatePaymentForm(sanitizedDataTable[formData], date)]

\* parseInt(id) and sanitizeInput(status) of each PATCH and DELETE input
paymentIdTable == [id \in IdParams |-> ParseInt(id)]

sanitizedStatusTable == [status \in StatusInputs \ {Undefined} |-> sanitizeInput(status)]

\* validationErrors.length > 0
HasErrorsOffByOne(validationErrors) == Len(validationErrors) > 1

HasErrors(validationErrors) == Len(validationErrors) > 0

\* this.currentPaymentId++ / the next value of the id sequence
SameId(id) == id

NextId(id) == id + 1

\* a catch block that blames the request
PostBadRequest ==
  [op |-> "POST", code |-> 400, success |-> FALSE,
   errors |-> <<[field |-> "general", message |-> "Server error occurred"]>>]

\* the catch block of the POST handler
PostServerError ==
  [op |-> "POST", code |-> 500, success |-> FALSE,
   errors |-> <<[field |-> "general", message |-> "Server error occurred"]>>]

\* a DELETE handler of MemStorage is between its two awaits: the promises it
\* awaits are already resolved, so it continues before the event loop starts
\* the callback of another request or timer
MidHandler == backend = "MemStorage" /\ \E d \in 1..MaxDeletes : del[d].pc = "deleting"

\* the handler up to its first response or to the await of the processing
\* delay; suffix is the Math.random() part of the transaction id
PostPayment(r, formData, suffix) ==
  /\ UNCHANGED <<backend, users, currentUserId, now, today, del>>
  /\ ~MidHandler
  /\ run[r].pc = "idle"
  /\ \A q \in 1..(r - 1) : run[q].pc # "idle"
  /\ currentPaymentId <= MaxPayments
  /\ IF HasUndefined(formData)
       THEN /\ response' = PostServerError
            /\ UNCHANGED <<payments, currentPaymentId, run>>
       ELSE LET sanitizedData == sanitizedDataTable[formData]
                validationErrors == validationErrorsTable[formData, today]
                transactionId == [ts |-> now, rand |-> suffix]
                paymentRecord ==
                  createPayment(InsertPaymentOf(sanitizedData, transactionId),
                                currentPaymentId, now)
            IN IF HasErrors(validationErrors)
                 THEN /\ response' = [op |-> "POST", code |-> 400, success |-> FALSE,
                                      errors |-> validationErrors]
                      /\ UNCHANGED <<payments, currentPaymentId, run>>
                 ELSE IF /\ backend = "DatabaseStorage"
                         /\ UniqueViolation(payments, transactionId)
                        THEN /\ response' = PostServerError
                             /\ UNCHANGED <<payments, currentPaymentId, run>>
                        ELSE /\ payments' = (currentPaymentId :> paymentRecord) @@ payments
                             /\ currentPaymentId' = NextId(currentPaymentId)
                             /\ run' = [run EXCEPT ![r] =
                                          [pc |-> "delay",
                                           sanitizedData |-> sanitizedData,
                                           paymentRecord |->
                                             [id |-> paymentRecord.id,
                                              createdAt |-> paymentRecord.createdAt]]]
                             /\ UNCHANGED response

\* the handler after the processing delay; shouldFail is Math.random() < 0.1
FinalizePayment(r, shouldFail) ==
  /\ UNCHANGED <<backend, users, currentUserId, currentPaymentId, now, today, del>>
  /\ ~MidHandler
  /\ run[r].pc = "delay"
  /\ now > run[r].paymentRecord.createdAt
  /\ LET paymentRecord == run[r].paymentRecord
         sanitizedData == run[r].sanitizedData
         updated == updatePayment(paymentRecord.id,
                                  [status |-> IF shouldFail THEN FAILED ELSE COMPLETED],
                                  now)
     IN /\ payments' = updated
        /\ response' =
             IF shouldFail
               THEN [op |-> "POST", code |-> 422, success |-> FALSE,
                     errors |-> <<DECLINED>>]
               ELSE [op |-> "POST", code |-> 200, success |-> TRUE,
                     paymentId |-> paymentRecord.id,
                     data |-> [email |-> sanitizedData.email,
                               status |-> IF paymentRecord.id \in DOMAIN updated
                                            THEN updated[paymentRecord.id].status
                                            ELSE COMPLETED]]
        /\ run' = [run EXCEPT ![r] = Idle]

(* ------------------------------ PATCH /api/payment/:id/status ---------- *)
PatchStatus(id, status) ==
  /\ UNCHANGED <<backend, users, currentUserId, currentPaymentId, now, today, run, del>>
  /\ ~MidHandler
  /\ IF status = Undefined
       THEN /\ response' = [op |-> "PATCH", code |-> 500]
            /\ UNCHANGED payments
       ELSE LET paymentId == paymentIdTable[id]
                sanitizedStatus == sanitizedStatusTable[status]
                updated == updatePayment(paymentId, [status |-> sanitizedStatus], now)
            IN IF IsNaN(paymentId)
                 THEN /\ response' = [op |-> "PATCH", code |-> 400,
                                      message |-> "Invalid payment ID"]
                      /\ UNCHANGED payments
                 ELSE IF sanitizedStatus \notin validStatuses
                        THEN /\ response' = [op |-> "PATCH", code |-> 400,
                                             message |-> "Invalid status",
                                             paymentId |-> paymentId]
                             /\ UNCHANGED payments
                        ELSE IF paymentId \notin DOMAIN updated
                               THEN /\ response' = [op |-> "PATCH", code |-> 404,
                                                         paymentId |-> paymentId]
                                    /\ UNCHANGED payments
                               ELSE /\ response' =
                                         [op |-> "PATCH", code |-> 200,
                                          data |-> [id |-> updated[paymentId].id,
                                                    status |-> updated[paymentId].status]]
                                    /\ payments' = updated

(* ------------------------------ DELETE /api/payment/:id ---------------- *)
\* the handler up to its first response or to the await of storage.getPayment
DeleteCheck(d, id) ==
  /\ UNCHANGED <<backend, users, currentUserId, payments, currentPaymentId, now, today, run>>
  /\ ~MidHandler
  /\ del[d].pc = "idle"
  /\ \A q \in 1..(d - 1) : del[q].pc # "idle"
  /\ LET paymentId == paymentIdTable[id]
     IN IF IsNaN(paymentId)
          THEN /\ response' = [op |-> "DELETE", code |-> 400]
               /\ UNCHANGED del
          ELSE IF getPayment(payments, paymentId) = {}
                 THEN /\ response' = [op |-> "DELETE", code |-> 404,
                                           paymentId |-> paymentId]
                      /\ UNCHANGED del
                 ELSE /\ del' = [del EXCEPT ![d] =
                                   [pc |-> "deleting", paymentId |-> paymentId,
                                    existingPayment |->
                                      [transactionId |-> payments[paymentId].transactionId]]]
                      /\ UNCHANGED response

\* the handler from storage.deletePayment to its response
DeleteRemove(d) ==
  /\ UNCHANGED <<backend, users, currentUserId, currentPaymentId, now, today, run>>
  /\ del[d].pc = "deleting"
  /\ LET paymentId == del[d].paymentId
         deleted == paymentId \in DOMAIN payments
     IN /\ payments' = deletePayment(paymentId)
        /\ response' =
             IF deleted
               THEN [op |-> "DELETE", code |-> 200,
                     data |-> [deletedId |-> paymentId,
                               transactionId |-> del[d].existingPayment.transactionId]]
               ELSE [op |-> "DELETE", code |-> 500]
        /\ del' = [del EXCEPT ![d] = Idle]

(* ------------------------------ clock ---------------------------------- *)
\* a millisecond passes
Tick ==
  /\ now < MaxTime
  /\ now' = now + 1
  /\ UNCHANGED <<backend, users, currentUserId, payments, currentPaymentId, today, run, del, response>>

Next ==
  \/ \E r \in 1..MaxRuns, formData \in Payloads, suffix \in 1..NSuffix :
       PostPayment(r, formData, suffix)
  \/ \E r \in 1..MaxRuns, shouldFail \in BOOLEAN : FinalizePayment(r, shouldFail)
  \/ \E id \in IdParams, status \in StatusInputs : PatchStatus(id, status)
  \/ \E d \in 1..MaxDeletes, id \in IdParams : DeleteCheck(d, id)
  \/ \E d \in 1..MaxDeletes : DeleteRemove(d)
  \/ Tick

Spec == Init /\ [][Next]_vars

TypeOK ==
  /\ backend \in Backends
  /\ currentPaymentId \in 1..(MaxPayments + 1)
  /\ now \in 0..MaxTime
  /\ DOMAIN payments \subseteq 1..(currentPaymentId - 1)
  /\ \A i \in DOMAIN payments : payments[i].id = i

(* ------------------------------ storage calls that throw --------------- *)
\* storage.createPayment rejects: the catch block of the POST handler answers
PostCreateFails(r, formData) ==
  /\ UNCHANGED <<backend, users, currentUserId, payments, currentPaymentId, now, today, run, del>>
  /\ ~MidHandler
  /\ run[r].pc = "idle"
  /\ \A q \in 1..(r - 1) : run[q].pc # "idle"
  /\ currentPaymentId <= MaxPayments
  /\ ~HasUndefined(formData)
  /\ ~HasErrors(validationErrorsTable[formData, today])
  /\ response' = PostServerError

\* storage.updatePayment rejects after the processing delay
FinalizeFails(r) ==
  /\ UNCHANGED <<backend, users, currentUserId, payments, currentPaymentId, now, today, del>>
  /\ ~MidHandler
  /\ run[r].pc = "delay"
  /\ now > run[r].paymentRecord.createdAt
  /\ response' = PostServerError
  /\ run' = [run EXCEPT ![r] = Idle]

\* storage.updatePayment rejects in the PATCH handler
PatchFails(id, status) ==
  /\ UNCHANGED <<backend, users, currentUserId, payments, currentPaymentId, now, today, run, del>>
  /\ ~MidHandler
  /\ status # Undefined
  /\ ~IsNaN(paymentIdTable[id])
  /\ sanitizedStatusTable[status] \in validStatuses
  /\ response' = [op |-> "PATCH", code |-> 500]

\* storage.getPayment rejects in the DELETE handler
DeleteCheckFails(d, id) ==
  /\ UNCHANGED <<backend, users, currentUserId, payments, currentPaymentId, now, today, run, del>>
  /\ ~MidHandler
  /\ del[d].pc = "idle"
  /\ \A q \in 1..(d - 1) : del[q].pc # "idle"
  /\ ~IsNaN(paymentIdTable[id])
  /\ response' = [op |-> "DELETE", code |-> 500]

\* storage.deletePayment rejects in the DELETE handler
DeleteRemoveFails(d) ==
  /\ UNCHANGED <<backend, users, currentUserId, payments, currentPaymentId, now, today, run>>
  /\ del[d].pc = "deleting"
  /\ response' = [op |-> "DELETE", code |-> 500]
  /\ del' = [del EXCEPT ![d] = Idle]

\* the admin requests sent while storage calls may throw, or while the
\* event loop is watched
FaultIdParams == {<<"1">>, <<"x">>}

FaultStatusInputs == {REFUNDED, ARCHIVED, Undefined}

FaultNext ==
  \/ \E r \in 1..MaxRuns, formData \in Payloads, suffix \in 1..NSuffix :
       PostPayment(r, formData, suffix)
  \/ \E r \in 1..MaxRuns, shouldFail \in BOOLEAN : FinalizePayment(r, shouldFail)
  \/ \E id \in FaultIdParams, status \in FaultStatusInputs : PatchStatus(id, status)
  \/ \E d \in 1..MaxDeletes, id \in FaultIdParams : DeleteCheck(d, id)
  \/ \E d \in 1..MaxDeletes : DeleteRemove(d)
  \/ Tick
  \/ \E r \in 1..MaxRuns, formData \in Payloads : PostCreateFails(r, formData)
  \/ \E r \in 1..MaxRuns : FinalizeFails(r)
  \/ \E id \in FaultIdParams, status \in FaultStatusInputs : PatchFails(id, status)
  \/ \E d \in 1..MaxDeletes, id \in FaultIdParams : DeleteCheckFails(d, id)
  \/ \E d \in 1..MaxDeletes : DeleteRemoveFails(d)

FaultSpec == Init /\ [][FaultNext]_vars

(* ------------------------------ the event loop ------------------------ *)
\* submissions arrive while the clock of the model can still advance, so
\* that the timer of every processing delay can expire
LiveNext ==
  \/ \E r \in 1..MaxRuns, formData \in Payloads, suffix \in 1..NSuffix :
       now < MaxTime /\ PostPayment(r, formData, suffix)
  \/ \E r \in 1..MaxRuns, shouldFail \in BOOLEAN : FinalizePayment(r, shouldFail)
  \/ \E id \in FaultIdParams, status \in FaultStatusInputs : PatchStatus(id, status)
  \/ \E d \in 1..MaxDeletes, id \in FaultIdParams : DeleteCheck(d, id)
  \/ \E d \in 1..MaxDeletes : DeleteRemove(d)
  \/ Tick

\* time passes, a handler that has what it awaited continues, and the event
\* loop runs the callback of every expired timer
LiveSpec ==
  /\ Init
  /\ [][LiveNext]_vars
  /\ WF_vars(Tick)
  /\ \A d \in 1..MaxDeletes : WF_vars(DeleteRemove(d))
  /\ \A r \in 1..MaxRuns :
       WF_vars(\E shouldFail \in BOOLEAN : FinalizePayment(r, shouldFail))

(* ------------------------------ the storage object, called directly --- *)
MaxUsers == 1       \* users created

Usernames == {<<"a", "n", "n">>, <<"b", "o", "b">>}

\* InsertUser values, and the Partial<InsertUser> values of updateUser
InsertUsers == {[username |-> u] : u \in Usernames}

\* ids passed to the storage methods: every id handed out and one never used
UserIds == 1..(MaxUsers + 1)

PaymentIds == 1..(MaxPayments + 1)

AnnLower == <<"a", "n", "n", "@", "e", "x", ".", "i", "o">>

AnnMixed == <<"A", "n", "n", "@", "E", "x", ".", "i", "o">>

BobLower == <<"b", "o", "b", "@", "e", "x", ".", "i", "o">>

\* email arguments of getPaymentsByEmail
EmailQueries == {AnnLower, AnnMixed, BobLower}

\* the InsertPayment values passed to createPayment, but for the transaction id
InsertDrafts ==
  LET sanitizedData == sanitizedDataTable[BasePayload]
  IN {[sanitizedData EXCEPT !.email = AnnLower],
      [sanitizedData EXCEPT !.email = AnnMixed, !.message = <<"h", "i">>]}

\* status values of the UpdatePayment argument of updatePayment
UpdateStatuses == {COMPLETED, REFUNDED}

createUser(insertUser, id) ==
  IF backend = "MemStorage" THEN MemStorage_createUser(insertUser, id)
  ELSE DatabaseStorage_createUser(insertUser, id)

updateUser(id, userData) ==
  IF backend = "MemStorage" THEN MemStorage_updateUser(users, id, userData)
  ELSE DatabaseStorage_updateUser(users, id, userData)

deleteUser(id) ==
  IF backend = "MemStorage" THEN MemStorage_deleteUser(users, id)
  ELSE DatabaseStorage_deleteUser(users, id)

getPaymentsByEmail(email) ==
  IF backend = "MemStorage" THEN MemStorage_getPaymentsByEmail(payments, email)
  ELSE DatabaseStorage_getPaymentsByEmail(payments, email)

\* the value a read resolves to, as the set of at most one row (the empty set
\* is undefined): one of the rows found, the first in id order in MemStorage,
\* whose maps iterate in insertion order
FoundIn(found) ==
  IF found = {} THEN {{}}
  ELSE IF backend = "MemStorage"
         THEN {{p} : p \in {q \in found : \A o \in found : q.id <= o.id}}
         ELSE {{p} : p \in found}

CreateUser(insertUser) ==
  /\ UNCHANGED <<backend, payments, currentPaymentId, now, today, run, del>>
  /\ currentUserId <= MaxUsers
  /\ LET user == createUser(insertUser, currentUserId)
     IN /\ users' = (currentUserId :> user) @@ users
        /\ currentUserId' = NextId(currentUserId)
        /\ response' = [op |-> "createUser", result |-> user]

GetUser(id) ==
  /\ UNCHANGED <<backend, users, currentUserId, payments, currentPaymentId, now, today, run, del>>
  /\ \E user \in FoundIn(getUser(users, id)) :
       response' = [op |-> "getUser", id |-> id, result |-> user]

GetUserByUsername(username) ==
  /\ UNCHANGED <<backend, users, currentUserId, payments, currentPaymentId, now, today, run, del>>
  /\ \E user \in FoundIn(getUserByUsername(users, username)) :
       response' = [op |-> "getUserByUsername", username |-> username, result |-> user]

UpdateUser(id, userData) ==
  /\ UNCHANGED <<backend, currentUserId, payments, currentPaymentId, now, today, run, del>>
  /\ LET updated == updateUser(id, userData)
     IN /\ users' = updated
        /\ response' = [op |-> "updateUser", id |-> id,
                        result |-> IF id \in DOMAIN users THEN {updated[id]} ELSE {}]

DeleteUser(id) ==
  /\ UNCHANGED <<backend, currentUserId, payments, currentPaymentId, now, today, run, del>>
  /\ users' = deleteUser(id)
  /\ response' = [op |-> "deleteUser", id |-> id, result |-> id \in DOMAIN users]

CreatePayment(draft, suffix) ==
  /\ UNCHANGED <<backend, users, currentUserId, now, today, run, del>>
  /\ currentPaymentId <= MaxPayments
  /\ LET transactionId == [ts |-> now, rand |-> suffix]
         payment == createPayment(InsertPaymentOf(draft, transactionId),
                                  currentPaymentId, now)
     IN IF backend = "DatabaseStorage" /\ UniqueViolation(payments, transactionId)
          THEN /\ response' = [op |-> "createPayment", threw |-> TRUE]
               /\ UNCHANGED <<payments, currentPaymentId>>
          ELSE /\ payments' = (currentPaymentId :> payment) @@ payments
               /\ currentPaymentId' = NextId(currentPaymentId)
               /\ response' = [op |-> "createPayment", threw |-> FALSE,
                               result |-> payment]

GetPayment(id) ==
  /\ UNCHANGED <<backend, users, currentUserId, payments, currentPaymentId, now, today, run, del>>
  /\ \E payment \in FoundIn(getPayment(payments, id)) :
       response' = [op |-> "getPayment", id |-> id, result |-> payment]

GetPaymentByTransactionId(transactionId) ==
  /\ UNCHANGED <<backend, users, currentUserId, payments, currentPaymentId, now, today, run, del>>
  /\ \E payment \in FoundIn(getPaymentByTransactionId(payments, transactionId)) :
       response' = [op |-> "getPaymentByTransactionId",
                    transactionId |-> transactionId, result |-> payment]

UpdatePayment(id, status) ==
  /\ UNCHANGED <<backend, users, currentUserId, currentPaymentId, now, today, run, del>>
  /\ LET updated == updatePayment(id, [status |-> status], now)
     IN /\ payments' = updated
        /\ response' = [op |-> "updatePayment", id |-> id,
                        result |-> IF id \in DOMAIN payments THEN {updated[id]} ELSE {}]

DeletePayment(id) ==
  /\ UNCHANGED <<backend, users, currentUserId, currentPaymentId, now, today, run, del>>
  /\ payments' = deletePayment(id)
  /\ response' = [op |-> "deletePayment", id |-> id, result |-> id \in DOMAIN payments]

GetPaymentsByEmail(email) ==
  /\ UNCHANGED <<backend, users, currentUserId, payments, currentPaymentId, now, today, run, del>>
  /\ response' = [op |-> "getPaymentsByEmail", email |-> email,
                  result |-> getPaymentsByEmail(email)]

StorageNext ==
  \/ \E insertUser \in InsertUsers : CreateUser(insertUser)
  \/ \E id \in UserIds : GetUser(id)
  \/ \E username \in Usernames : GetUserByUsername(username)
  \/ \E id \in UserIds, userData \in InsertUsers : UpdateUser(id, userData)
  \/ \E id \in UserIds : DeleteUser(id)
  \/ \E draft \in InsertDrafts, suffix \in 1..NSuffix : CreatePayment(draft, suffix)
  \/ \E id \in PaymentIds : GetPayment(id)
  \/ \E ts \in 0..MaxTime, suffix \in 1..NSuffix :
       GetPaymentByTransactionId([ts |-> ts, rand |-> suffix])
  \/ \E id \in PaymentIds, status \in UpdateStatuses : UpdatePayment(id, status)
  \/ \E id \in PaymentIds : DeletePayment(id)
  \/ \E email \in EmailQueries : GetPaymentsByEmail(email)
  \/ Tick

StorageSpec == Init /\ [][StorageNext]_vars

(* ------------------------------ the validators, called directly ------- *)
\* the months new Date() falls in when a validator is called
ClockDates ==
  {[year |-> 2026, month |-> 6], [year |-> 2099, month |-> 12],
   [year |-> 2105, month |-> 3]}

\* for each validated field a value its entry of the validations array
\* accepts and one it rejects, blank or ill-formed
FieldValues ==
  [cardNumber |-> {BasePayload.cardNumber,
                   <<"4", "1", "1", "1", "1", "1", "1", "1", "1", "1", "1", "1", "1", "1", "1">>},
   cvc |-> {<<"1", "2", "3">>, <<>>},
   expiryDate |-> {<<"1", "2", "/", "9", "9">>, <<"0", "1", "/", "2", "0">>},
   amount |-> {<<"1", "0", ".", "5", "0">>, <<"-", "5">>},
   firstName |-> {<<"A", "n", "n">>, <<" ", " ">>},
   lastName |-> {<<"L", "e", "e">>, <<>>},
   email |-> {AnnLower, <<"a", "n", "n", "@", "e", "x">>},
   city |-> {<<"R", "o", "m", "e">>, <<>>},
   state |-> {<<"R", "M">>, <<"\t">>},
   postalCode |-> {<<"1", "2", "3", "4", "5">>, <<"1", "2", "3", "4">>}]

\* PaymentFormData arguments of validatePaymentForm
Forms ==
  [cardNumber : FieldValues.cardNumber, cvc : FieldValues.cvc,
   expiryDate : FieldValues.expiryDate, amount : FieldValues.amount,
   firstName : FieldValues.firstName, lastName : FieldValues.lastName,
   email : FieldValues.email, city : FieldValues.city,
   state : FieldValues.state, postalCode : FieldValues.postalCode,
   message : {<<>>}]

TwoDigits == {<<a, b>> : a \in {"0", "1", "2", "9"}, b \in {"0", "1", "2", "3", "5", "6", "9"}}

\* arguments of validateExpiryDate: every MM/YY of TwoDigits, and strings of
\* another shape
ExpiryValues ==
  {mm \o <<"/">> \o yy : mm \in TwoDigits, yy \in {<<"0", "0">>, <<"0", "5">>, <<"2", "0">>,
                                                   <<"2", "6">>, <<"9", "9">>}}
    \cup {<<>>, <<"1", "/", "2", "6">>, <<"0", "1", "/", "2">>, <<"0", "1", "-", "2", "6">>,
          <<"0", "a", "/", "2", "6">>, <<"0", "1", "/", "2", "b">>,
          <<"0", "0", "1", "/", "2", "6">>, <<"0", "1", "/", "0", "2", "6">>,
          <<" ", "0", "1", "/", "2", "6">>, <<"+", "1", "/", "2", "6">>,
          <<"-", "1", "/", "2", "6">>, <<"0", "1", "/", "2", "6", " ">>}

NoCall == [op |-> "none", code |-> 0]

ValidationInit ==
  /\ backend \in Backends
  /\ users = <<>>
  /\ currentUserId = 1
  /\ payments = <<>>
  /\ currentPaymentId = 1
  /\ now = 0
  /\ today \in ClockDates
  /\ run = [r \in 1..MaxRuns |-> Idle]
  /\ del = [d \in 1..MaxDeletes |-> Idle]
  /\ response = NoCall

ValidatePaymentForm(formData) ==
  /\ UNCHANGED <<backend, users, currentUserId, payments, currentPaymentId, now, today, run, del>>
  /\ response.op = "none"
  /\ response' = [op |-> "validatePaymentForm", formData |-> formData,
                  result |-> validatePaymentForm(formData, today)]

ValidateExpiryDate(value) ==
  /\ UNCHANGED <<backend, users, currentUserId, payments, currentPaymentId, now, today, run, del>>
  /\ response.op = "none"
  /\ response' = [op |-> "validateExpiryDate", value |-> value,
                  result |-> validateExpiryDate(value, today)]

\* the caller has the result and is ready for its next call
Return ==
  /\ UNCHANGED <<backend, users, currentUserId, payments, currentPaymentId, now, today, run, del>>
  /\ response.op # "none"
  /\ response' = NoCall

ValidationNext ==
  \/ \E formData \in Forms : ValidatePaymentForm(formData)
  \/ \E value \in ExpiryValues : ValidateExpiryDate(value)
  \/ Return

ValidationSpec == ValidationInit /\ [][ValidationNext]_vars

(* ------------------------------ claims --------------------------------- *)
\* the id of the payment the POST handler r is about to finalize
FinalizedBy(r) == run[r].paymentRecord.id

\* C1: when a pipeline run finishes (its handler leaves the processing delay
\* and responds), the response is 200 and the record it created is stored
\* with status completed, or the response is 422 and the record is stored
\* with status failed; the record is not left pending.
C1_FinishedRunPersistsOutcome ==
  [][\A r \in 1..MaxRuns :
       (run[r].pc = "delay" /\ run'[r].pc = "idle") =>
         /\ FinalizedBy(r) \in DOMAIN payments'
         /\ payments'[FinalizedBy(r)].status # PENDING
         /\ \/ response'.code = 200 /\ payments'[FinalizedBy(r)].status = COMPLETED
            \/ response'.code = 422 /\ payments'[FinalizedBy(r)].status = FAILED]_vars

\* C2: a submission whose sanitized form has at least one validation error is
\* answered 400 with the full error list, and the store is as before: no
\* record created or modified, no id consumed.
C2_ValidationFailureLeavesStore ==
  [][\A r \in 1..MaxRuns, formData \in Sanitizable, suffix \in 1..NSuffix :
       (/\ PostPayment(r, formData, suffix)
        /\ validationErrorsTable[formData, today] # <<>>) =>
         /\ response'.op = "POST"
         /\ response'.code = 400
         /\ response'.errors = validationErrorsTable[formData, today]
         /\ payments' = payments
         /\ currentPaymentId' = currentPaymentId
         /\ run' = run]_vars

\* a validation failure was answered while a payment is stored
C2_Witness ==
  /\ response.op = "POST"
  /\ response.code = 400
  /\ Len(response.errors) = 1
  /\ DOMAIN payments # {}

\* C3: every stored cardNumber is mask characters except for at most its last
\* four characters, and is never the unmasked value a request passed to
\* createPayment, whatever updates followed.
C3_StoredCardMasked ==
  \A i \in DOMAIN payments :
    /\ \A k \in 1..(Len(payments[i].cardNumber) - 4) : payments[i].cardNumber[k] = "*"
    /\ \A formData \in Sanitizable :
         payments[i].cardNumber # sanitizeNumeric(formData.cardNumber)

\* a stored payment whose status was updated after creation
C3_Witness ==
  \E i \in DOMAIN payments :
    /\ payments[i].status = REFUNDED
    /\ payments[i].cardNumber = Stars(12) \o <<"1", "1", "1", "1">>

\* the status enum of the data model
Statuses == {PENDING, COMPLETED, FAILED, REFUNDED}

\* C4: the status of every stored payment is one of pending, completed,
\* failed, refunded, after any sequence of POST, PATCH and DELETE requests.
C4_StatusInEnum == \A i \in DOMAIN payments : payments[i].status \in Statuses

\* a PATCH set a status, after an earlier payment was deleted
C4_Witness ==
  /\ response.op = "PATCH"
  /\ response.code = 200
  /\ response.data.id \in DOMAIN payments
  /\ payments[response.data.id].status = REFUNDED
  /\ \E i \in 1..(currentPaymentId - 1) : i \notin DOMAIN payments

\* this step is a successful updatePayment of payment i: an admin status
\* update answered 200 for i, or the finalize step of the pipeline run that
\* created i
UpdateStep(i) ==
  /\ i \in DOMAIN payments
  /\ \/ /\ response'.op = "PATCH"
        /\ response'.code = 200
        /\ response'.data.id = i
        /\ \E id \in IdParams, status \in StatusInputs : PatchStatus(id, status)
     \/ \E r \in 1..MaxRuns :
          /\ run[r].pc = "delay"
          /\ run'[r].pc = "idle"
          /\ run[r].paymentRecord.id = i
          /\ \E shouldFail \in BOOLEAN : FinalizePayment(r, shouldFail)

\* C5 as stated: updatedAt >= createdAt always, and every successful
\* updatePayment changes updatedAt and leaves createdAt unchanged.
C5_UpdateChangesUpdatedAt ==
  /\ [](\A i \in DOMAIN payments : payments[i].updatedAt >= payments[i].createdAt)
  /\ [][\A i \in DOMAIN payments :
          UpdateStep(i) =>
            /\ payments'[i].updatedAt # payments[i].updatedAt
            /\ payments'[i].createdAt = payments[i].createdAt]_vars

\* C5 amended: updatedAt >= createdAt always; every successful updatePayment
\* sets updatedAt to the time of the update, which may be the millisecond it
\* already holds; createdAt never changes.
C5_UpdateSetsUpdatedAt ==
  /\ [](\A i \in DOMAIN payments : payments[i].updatedAt >= payments[i].createdAt)
  /\ [][/\ \A i \in DOMAIN payments :
             UpdateStep(i) =>
               /\ payments'[i].updatedAt = now
               /\ payments'[i].updatedAt >= payments[i].updatedAt
        /\ \A i \in DOMAIN payments \cap DOMAIN payments' :
             payments'[i].createdAt = payments[i].createdAt]_vars

\* a payment updated in a later millisecond than it was created in
C5_Witness ==
  \E i \in DOMAIN payments : payments[i].updatedAt > payments[i].createdAt

\* the fields of a payment no update may change
FrameFields == {"id", "transactionId", "cardNumber", "cvc", "expiryDate", "amount",
                "firstName", "lastName", "email", "city", "state", "postalCode",
                "message", "createdAt"}

\* C6: while a payment exists, no step changes its transactionId; finalize
\* steps and admin status updates change only status and updatedAt.
C6_TransactionIdFixed ==
  [][\A i \in DOMAIN payments \cap DOMAIN payments' :
       \A f \in FrameFields : payments'[i][f] = payments[i][f]]_vars

\* a payment finalized by its pipeline run and then updated by an admin
C6_Witness ==
  /\ response.op = "PATCH"
  /\ response.code = 200
  /\ \E i \in DOMAIN payments :
       /\ response.data.id = i
       /\ payments[i].status = PENDING
       /\ payments[i].updatedAt > payments[i].createdAt
       /\ \A r \in 1..MaxRuns : run[r].pc = "idle"

\* C7: ids are unique and assigned monotonically: a create step returns an id
\* that no stored payment has and that is greater than every id handed out
\* before, deleted ones included, because the counter only grows and stays
\* above every id handed out.
C7_IdsMonotonic ==
  /\ [](\A i \in DOMAIN payments : payments[i].id = i /\ i < currentPaymentId)
  /\ [][/\ currentPaymentId' >= currentPaymentId
        /\ \A r \in 1..MaxRuns :
             (run[r].pc = "idle" /\ run'[r].pc = "delay") =>
               /\ run'[r].paymentRecord.id >= currentPaymentId
               /\ run'[r].paymentRecord.id \notin DOMAIN payments
               /\ currentPaymentId' > run'[r].paymentRecord.id
               /\ run'[r].paymentRecord.id \in DOMAIN payments'
               /\ DOMAIN payments' = DOMAIN payments \cup {run'[r].paymentRecord.id}]_vars

\* payment 1 was deleted and a later create was given id 2
C7_Witness == 1 \notin DOMAIN payments /\ 2 \in DOMAIN payments

\* C8: no two stored payments share a transactionId.
C8_DistinctTransactionIds ==
  \A i \in DOMAIN payments, j \in DOMAIN payments :
    i # j => payments[i].transactionId # payments[j].transactionId

\* the deleted payment i is in the result of no read of the store
NotReturned(store, i) ==
  /\ getPayment(store, i) = {}
  /\ \A j \in DOMAIN store :
       /\ \A p \in getPaymentByTransactionId(store, store[j].transactionId) : p.id # i
       /\ \A p \in getPaymentsByStatus(store, store[j].status) : p.id # i
       /\ \A p \in MemStorage_getPaymentsByEmail(store, store[j].email) : p.id # i
       /\ \A p \in DatabaseStorage_getPaymentsByEmail(store, store[j].email) : p.id # i

\* C9: DELETE of an id that is not stored (never created, or deleted before)
\* answers 404 and changes nothing; the delete step of a stored id answers
\* 200 and removes the payment from every read; a removed id stays removed,
\* so a second DELETE of it answers 404.
C9_DeleteThenNotFound ==
  [][/\ \A d \in 1..MaxDeletes, id \in IdParams :
          (/\ ~IsNaN(paymentIdTable[id])
           /\ paymentIdTable[id] \notin DOMAIN payments
           /\ DeleteCheck(d, id)) =>
            /\ response' = [op |-> "DELETE", code |-> 404,
                            paymentId |-> paymentIdTable[id]]
            /\ UNCHANGED <<payments, currentPaymentId, run, del>>
     /\ \A d \in 1..MaxDeletes :
          (/\ del[d].pc = "deleting"
           /\ del[d].paymentId \in DOMAIN payments
           /\ DeleteRemove(d)) =>
            /\ response'.code = 200
            /\ response'.data.deletedId = del[d].paymentId
            /\ NotReturned(payments', del[d].paymentId)
     /\ \A gone \in 1..(currentPaymentId - 1) :
          gone \notin DOMAIN payments => gone \notin DOMAIN payments']_vars

\* a DELETE of an id deleted before was answered 404
C9_Witness ==
  /\ response.op = "DELETE"
  /\ response.code = 404
  /\ response.paymentId < currentPaymentId
  /\ response.paymentId \notin DOMAIN payments

\* C10 as stated: a PATCH whose status value is not one of the four enum
\* strings is answered 400 and leaves every stored payment unchanged.
C10_NonEnumStatusRejected ==
  [][\A id \in IdParams, status \in StatusInputs \ {Undefined} :
       (status \notin Statuses /\ PatchStatus(id, status)) =>
         response'.code = 400 /\ payments' = payments]_vars

\* the status strings whose sanitized form is not in the enum
SanitizedNonEnum ==
  {status \in StatusInputs \ {Undefined} : sanitizeInput(status) \notin Statuses}

\* C10 amended: a PATCH whose status string, once sanitized (trimmed, the
\* characters < > " ' removed), is not one of the four enum strings is
\* answered 400, whether or not the id exists, and leaves the store unchanged.
C10_NonEnumSanitizedStatusRejected ==
  [][\A id \in IdParams, status \in SanitizedNonEnum :
       PatchStatus(id, status) =>
         /\ response'.op = "PATCH"
         /\ response'.code = 400
         /\ payments' = payments]_vars

\* a PATCH of an existing payment was refused for its status
C10_Witness ==
  /\ response.op = "PATCH"
  /\ response.code = 400
  /\ response.message = "Invalid status"
  /\ response.paymentId \in DOMAIN payments

\* C11: updateUser and updatePayment on an id that is not stored return
\* undefined and leave both stores and both counters unchanged (no record is
\* created); getUser, getUserByUsername, getPayment and
\* getPaymentByTransactionId on an absent key return undefined.
C11_AbsentKeyNotFound ==
  [][/\ \A id \in UserIds, userData \in InsertUsers :
          (/\ response'.op = "updateUser"
           /\ id \notin DOMAIN users
           /\ UpdateUser(id, userData)) =>
            /\ response'.result = {}
            /\ UNCHANGED <<users, currentUserId, payments, currentPaymentId>>
     /\ \A id \in PaymentIds, status \in UpdateStatuses :
          (/\ response'.op = "updatePayment"
           /\ id \notin DOMAIN payments
           /\ UpdatePayment(id, status)) =>
            /\ response'.result = {}
            /\ UNCHANGED <<users, currentUserId, payments, currentPaymentId>>
     /\ \A id \in UserIds :
          (/\ response'.op = "getUser"
           /\ id \notin DOMAIN users
           /\ GetUser(id)) => response'.result = {}
     /\ \A username \in Usernames :
          (/\ response'.op = "getUserByUsername"
           /\ \A i \in DOMAIN users : users[i].username # username
           /\ GetUserByUsername(username)) => response'.result = {}
     /\ \A id \in PaymentIds :
          (/\ response'.op = "getPayment"
           /\ id \notin DOMAIN payments
           /\ GetPayment(id)) => response'.result = {}
     /\ \A ts \in 0..MaxTime, suffix \in 1..NSuffix :
          (/\ response'.op = "getPaymentByTransactionId"
           /\ \A i \in DOMAIN payments :
                payments[i].transactionId # [ts |-> ts, rand |-> suffix]
           /\ GetPaymentByTransactionId([ts |-> ts, rand |-> suffix])) =>
            response'.result = {}]_vars

\* updateUser was called on an id that is not stored while a user and a
\* payment are
C11_Witness ==
  /\ response.op = "updateUser"
  /\ response.id \notin DOMAIN users
  /\ response.result = {}
  /\ DOMAIN users # {}
  /\ DOMAIN payments # {}

\* C12: a POST /api/payment submission without an email (the field is absent
\* from the body, or is the empty string) is answered 400 with an error list
\* that has the entry "Email is required" for the field email and no entry
\* with the email format message.
C12_MissingEmailIsRequiredError ==
  [][\A r \in 1..MaxRuns, formData \in Payloads, suffix \in 1..NSuffix :
       (/\ formData.email \in {<<>>, Undefined}
        /\ PostPayment(r, formData, suffix)) =>
         /\ response'.op = "POST"
         /\ response'.code = 400
         /\ \E k \in 1..Len(response'.errors) :
              response'.errors[k] = [field |-> "email", message |-> RequiredMessage("email")]
         /\ \A k \in 1..Len(response'.errors) :
              response'.errors[k].message # FieldMessage("email")]_vars

\* the field is blank, or its rule of the validation table does not hold
FieldFails(field, value, date) ==
  \/ \A i \in 1..Len(value) : value[i] \in Whitespace
  \/ ~FieldValid(field, value, date)

\* position of a field in the fixed order
FieldPos(field) == CHOOSE k \in 1..Len(FieldOrder) : FieldOrder[k] = field

\* C13: validatePaymentForm is not fail-fast: for every combination of
\* passing and failing fields the list it returns has exactly one entry for
\* each of the ten fields that fails, none for a field that passes, and the
\* entries come in the order cardNumber, cvc, expiryDate, amount, firstName,
\* lastName, email, city, state, postalCode.
C13_FullErrorListInOrder ==
  response.op = "validatePaymentForm" =>
    LET errors == response.result
        formData == response.formData
    IN /\ \A k \in 1..Len(FieldOrder) :
            Cardinality({j \in 1..Len(errors) : errors[j].field = FieldOrder[k]})
              = IF FieldFails(FieldOrder[k], formData[FieldOrder[k]], today) THEN 1 ELSE 0
       /\ \A i \in 1..Len(errors), j \in 1..Len(errors) :
            i < j => FieldPos(errors[i].field) < FieldPos(errors[j].field)

\* a form whose first, fourth and last fields fail and whose others pass
C13_Witness ==
  /\ response.op = "validatePaymentForm"
  /\ Len(response.result) = 3
  /\ response.result[1].field = "cardNumber"
  /\ response.result[2].field = "amount"
  /\ response.result[3].field = "postalCode"

\* the fields createPayment copies from its argument as they are
CopiedFields == {"cvc", "expiryDate", "amount", "firstName", "lastName", "email",
                 "city", "state", "postalCode"}

\* C14: the record createPayment returns has the fields of its argument
\* (cardNumber masked but for its last four characters, an empty message as
\* null), and a getPayment of the returned id right after it returns that
\* very record; any getPayment of a stored id returns the stored record, of
\* which later steps change only status and updatedAt.
C14_CreateGetRoundTrip ==
  [][/\ \A draft \in InsertDrafts, suffix \in 1..NSuffix :
          (/\ response'.op = "createPayment"
           /\ ~response'.threw
           /\ CreatePayment(draft, suffix)) =>
            LET created == response'.result
            IN /\ created.id = currentPaymentId
               /\ \A f \in CopiedFields : created[f] = draft[f]
               /\ created.transactionId = [ts |-> now, rand |-> suffix]
               /\ Len(created.cardNumber) = Len(draft.cardNumber)
               /\ \A k \in 1..Len(draft.cardNumber) :
                    created.cardNumber[k] =
                      IF k <= Len(draft.cardNumber) - 4 THEN "*" ELSE draft.cardNumber[k]
               /\ created.message = IF draft.message = <<>> THEN Null ELSE draft.message
     /\ (/\ response.op = "createPayment"
         /\ ~response.threw
         /\ response'.op = "getPayment"
         /\ response'.id = response.result.id) =>
           response'.result = {response.result}
     /\ \A id \in PaymentIds :
          (/\ response'.op = "getPayment"
           /\ id \in DOMAIN payments
           /\ GetPayment(id)) => response'.result = {payments[id]}
     /\ \A i \in DOMAIN payments \cap DOMAIN payments' :
          \A f \in FrameFields : payments'[i][f] = payments[i][f]]_vars

\* a payment created with an empty message and updated in a later
\* millisecond was read back
C14_Witness ==
  /\ response.op = "getPayment"
  /\ \E p \in response.result :
       /\ p.message = Null
       /\ p.status = REFUNDED
       /\ p.updatedAt > p.createdAt
       /\ payments[p.id] = p

\* C15: in both backends getPaymentsByEmail(e) returns exactly the stored
\* payments whose email equals e when letter case is ignored, for every
\* stored email and every query string.
C15_EmailFilterIgnoresCase ==
  response.op = "getPaymentsByEmail" =>
    response.result =
      {payments[i] : i \in {j \in DOMAIN payments :
                              ToLowerCase(payments[j].email) = ToLowerCase(response.email)}}

\* C16: a storage call that throws at any step of a handler, and a request
\* body that lacks an expected field, are answered 500 by that handler, which
\* then is finished; the store is left as it was, so a payment created before
\* the failure stays stored with the status it had.
C16_FailureAnswered500 ==
  [][/\ \A r \in 1..MaxRuns, formData \in Payloads \ Sanitizable, suffix \in 1..NSuffix :
          PostPayment(r, formData, suffix) =>
            /\ response'.op = "POST" /\ response'.code = 500
            /\ UNCHANGED <<payments, currentPaymentId, run>>
     /\ \A id \in FaultIdParams :
          PatchStatus(id, Undefined) =>
            /\ response'.op = "PATCH" /\ response'.code = 500
            /\ UNCHANGED <<payments, currentPaymentId>>
     /\ \A r \in 1..MaxRuns, formData \in Sanitizable :
          PostCreateFails(r, formData) =>
            /\ response'.op = "POST" /\ response'.code = 500
            /\ UNCHANGED <<payments, currentPaymentId, run>>
     /\ \A r \in 1..MaxRuns :
          (run[r].pc = "delay" /\ FinalizeFails(r)) =>
            /\ response'.op = "POST" /\ response'.code = 500
            /\ run'[r].pc = "idle"
            /\ DOMAIN payments' = DOMAIN payments
            /\ FinalizedBy(r) \in DOMAIN payments =>
                 payments'[FinalizedBy(r)] = payments[FinalizedBy(r)]
     /\ \A id \in FaultIdParams, status \in FaultStatusInputs :
          PatchFails(id, status) =>
            /\ response'.op = "PATCH" /\ response'.code = 500
            /\ payments' = payments
     /\ \A d \in 1..MaxDeletes, id \in FaultIdParams :
          DeleteCheckFails(d, id) =>
            /\ response'.op = "DELETE" /\ response'.code = 500
            /\ UNCHANGED <<payments, del>>
     /\ \A d \in 1..MaxDeletes :
          (del[d].pc = "deleting" /\ DeleteRemoveFails(d)) =>
            /\ response'.op = "DELETE" /\ response'.code = 500
            /\ del'[d].pc = "idle"
            /\ payments' = payments]_vars

\* the update after the processing delay threw: the handler answered 500 and
\* the payment it created is still pending, as created
C16_Witness ==
  /\ response = PostServerError
  /\ \A r \in 1..MaxRuns : run[r].pc = "idle"
  /\ now > 0
  /\ \E i \in DOMAIN payments :
       /\ payments[i].status = PENDING
       /\ payments[i].createdAt = 0
       /\ payments[i].updatedAt = 0

\* the :id parameters that are not numerals
NonNumericIds == {id \in IdParams : id = <<>> \/ ~AllDigits(id)}

\* C17: PATCH /api/payment/:id/status and DELETE /api/payment/:id answer 400
\* and leave the store unchanged whenever the id parameter is not numeric, so
\* that a request reaches payment n only when the parameter is the numeral n.
C17_NonNumericIdRejected ==
  [][/\ \A id \in NonNumericIds, status \in StatusInputs \ {Undefined} :
          PatchStatus(id, status) =>
            /\ response'.op = "PATCH"
            /\ response'.code = 400
            /\ payments' = payments
     /\ \A d \in 1..MaxDeletes, id \in NonNumericIds :
          DeleteCheck(d, id) =>
            /\ response'.op = "DELETE"
            /\ response'.code = 400
            /\ UNCHANGED <<payments, del>>]_vars

\* the number two digit characters at positions i and i + 1 stand for
TwoDigitValue(value, i) == 10 * DigitVal(value[i]) + DigitVal(value[i + 1])

\* the shape MM/YY, the month in 1..12, and (YY, MM) not strictly before
\* (year mod 100, month) of the date
ShapedAndNotBefore(value, date) ==
  /\ Len(value) = 5
  /\ value[3] = "/"
  /\ \A i \in {1, 2, 4, 5} : value[i] \in Digits
  /\ TwoDigitValue(value, 1) \in 1..12
  /\ \/ TwoDigitValue(value, 4) > date.year % 100
     \/ /\ TwoDigitValue(value, 4) = date.year % 100
        /\ TwoDigitValue(value, 1) >= date.month

\* the month MM of the year 20YY lies before the month of the date
AlreadyPassed(value, date) ==
  /\ Len(value) = 5
  /\ \A i \in {1, 2, 4, 5} : value[i] \in Digits
  /\ (2000 + TwoDigitValue(value, 4)) * 12 + TwoDigitValue(value, 1)
       < date.year * 12 + date.month

\* C18 as stated: validateExpiryDate accepts a value exactly when it has the
\* shape MM/YY, the month is in 1..12 and (YY, MM) is not strictly before
\* (current year mod 100, current month); a date whose month and year have
\* passed, such as "01/20" after January 2020, is rejected.
C18_ExpiryAcceptedIffNotPassed ==
  response.op = "validateExpiryDate" =>
    /\ response.result = ShapedAndNotBefore(response.value, today)
    /\ AlreadyPassed(response.value, today) => ~response.result

\* C18 amended: the same equivalence; a date whose month and year have
\* passed is rejected while the current year is before 2100.
C18_ExpiryAcceptedIffNotBefore ==
  response.op = "validateExpiryDate" =>
    /\ response.result = ShapedAndNotBefore(response.value, today)
    /\ (today.year < 2100 /\ AlreadyPassed(response.value, today)) => ~response.result

\* the current month of the current year was accepted as expiry date
C18_Witness ==
  /\ response.op = "validateExpiryDate"
  /\ response.value = <<"0", "6", "/", "2", "6">>
  /\ today = [year |-> 2026, month |-> 6]
  /\ response.result

\* C19: every pipeline run sends exactly one response: 400 or 500 before a
\* record is created, or, once it waits in its processing delay, 200, 422 or
\* 500 when the delay is over, which always comes; nothing but its own
\* finalize step ends a waiting run.  Runs wait at the same time, and the
\* finalize step of each updates the record with the id its own create step
\* returned (if that record is still stored) and no other record.
C19_EveryRunRespondsOnce ==
  /\ \A r \in 1..MaxRuns : (run[r].pc = "delay") ~> (run[r].pc = "idle")
  /\ [][\A r \in 1..MaxRuns :
          /\ (run[r].pc = "idle" /\ run'[r].pc = "delay") => response' = response
          /\ (run[r].pc = "idle" /\ run'[r].pc = "idle"
              /\ \E formData \in Payloads, suffix \in 1..NSuffix :
                   PostPayment(r, formData, suffix)) =>
               /\ response'.op = "POST"
               /\ response'.code \in {400, 500}
               /\ payments' = payments
          /\ (run[r].pc = "delay" /\ run'[r] # run[r]) =>
               /\ run'[r].pc = "idle"
               /\ response'.op = "POST"
               /\ response'.code \in {200, 422, 500}
               /\ DOMAIN payments' = DOMAIN payments
               /\ \A i \in DOMAIN payments \ {FinalizedBy(r)} : payments'[i] = payments[i]
               /\ FinalizedBy(r) \in DOMAIN payments =>
                    /\ payments'[FinalizedBy(r)].updatedAt = now
                    /\ \/ /\ response'.code = 200
                          /\ payments'[FinalizedBy(r)].status = COMPLETED
                       \/ /\ response'.code = 422
                          /\ payments'[FinalizedBy(r)].status = FAILED]_vars

\* two runs waited in their delays at once; one completed payment 1, the
\* other failed payment 2
C19_Witness ==
  /\ \A r \in 1..MaxRuns : run[r].pc = "idle"
  /\ DOMAIN payments = {1, 2}
  /\ payments[1].createdAt = payments[2].createdAt
  /\ payments[1].status = COMPLETED
  /\ payments[2].status = FAILED
  /\ payments[1].updatedAt > payments[1].createdAt
  /\ payments[2].updatedAt > payments[2].createdAt

\* C20: under every interleaving of admin PATCH and DELETE requests with the
\* processing delay of a pipeline run, when POST /api/payment answers 200
\* with paymentId p and data.status completed, a payment with id p is stored
\* with status completed at that moment, and when it answers 422 the payment
\* the run created is stored with status failed.
C20_ResponseMatchesStore ==
  [][\A r \in 1..MaxRuns :
       (/\ run[r].pc = "delay"
        /\ run'[r].pc = "idle"
        /\ response'.op = "POST") =>
         /\ (response'.code = 200 /\ response'.data.status = COMPLETED) =>
              /\ response'.paymentId \in DOMAIN payments'
              /\ payments'[response'.paymentId].status = COMPLETED
         /\ response'.code = 422 =>
              /\ run[r].paymentRecord.id \in DOMAIN payments'
              /\ payments'[run[r].paymentRecord.id].status = FAILED]_vars

\* C21: when several DELETE /api/payment/:id requests for the same stored id
\* are in flight at once and no storage call fails, the request that removes
\* the record is answered 200 and every other one 404: a DELETE handler that
\* has passed the existence check never answers 500.
C21_ConcurrentDeletesNever500 ==
  [][\A d \in 1..MaxDeletes :
       (del[d].pc = "deleting" /\ del'[d].pc = "idle") =>
         /\ response'.op = "DELETE"
         /\ response'.code # 500
         /\ del[d].paymentId \in DOMAIN payments => response'.code = 200
         /\ del[d].paymentId \notin DOMAIN payments => response'.code = 404]_vars
====
